---- MODULE Spec2Model ----
(***************************************************************************)
(* Seattle weather dashboard (src/app.py): one Streamlit script that is    *)
(* re-executed top to bottom on every widget interaction.  The model       *)
(* follows one execution of the script statement group by statement group  *)
(* (pc), and the rerun that a change of the year pills triggers.           *)
(*                                                                         *)
(* Numbers.  The columns are integers here (the dataset's one-decimal      *)
(* values scaled by ten).  A mean is kept as an exact fraction             *)
(* [num, den]; den = 0 is pandas' NaN (the mean of no values).  Binary     *)
(* floating point error is not modelled: the statements checked are those  *)
(* of exact arithmetic.                                                    *)
(***************************************************************************)
EXTENDS Integers, Sequences, FiniteSets, TLC

VARIABLES
    source,          \* the bundled seattle_weather table (external, read only)
    session,         \* widget state of st.pills kept by the framework between reruns
    pc,              \* position of the running script
    bound,           \* names assigned so far by the running script
    full_df,         \* line 7
    YEARS,           \* line 50
    selected_years,  \* line 51
    df,              \* line 62
    avg_temp,        \* line 73
    total_precip,    \* line 81
    avg_wind,        \* line 89
    rainy_days,      \* line 97
    total_days,      \* line 98
    rainy_pct,       \* line 102
    weather_counts,  \* lines 110-111, 137
    pct,             \* line 127, one value per row of weather_counts
    df_sorted,       \* lines 211-214
    hist             \* completed runs seen so far: selection and what was computed

vars == <<source, session, pc, bound, full_df, YEARS, selected_years, df,
          avg_temp, total_precip, avg_wind, rainy_days, total_days, rainy_pct,
          weather_counts, pct, df_sorted, hist>>

----------------------------------------------------------------------------
(* Bounds of the model *)

\* days of the first calendar year that the reference table covers
MaxDay == 8
\* days of the following calendar year that the reference table covers
TailDays == 2

----------------------------------------------------------------------------
(* The reference table the datasets are drawn from *)

CalendarYears == {2012, 2013}

DaysIn(y) == IF y = 2012 THEN MaxDay ELSE TailDays

Calendar == {c \in [year : CalendarYears, doy : 1..(MaxDay + TailDays)] : c.doy <= DaysIn(c.year)}

Categories == <<"sun", "rain", "snow", "fog", "drizzle", "hail">>

WindTable == <<30, 52, 21, 74, 45, 45, 13, 66, 28>>
PrecipTable == <<0, 50, 0, 127, 0, 3, 0>>
TempMaxTable == <<100, 80, 128, 61, 117>>
TempMinTable == <<20, 10, 56, -5>>

Cyc(t, k) == t[((k - 1) % Len(t)) + 1]

\* position of a date in the reference table
Slot(c) == IF c.year = 2012 THEN c.doy ELSE MaxDay + c.doy

Row(c) == [date          |-> c,
           precipitation |-> Cyc(PrecipTable, Slot(c)),
           temp_max      |-> Cyc(TempMaxTable, Slot(c)),
           temp_min      |-> Cyc(TempMinTable, Slot(c)),
           wind          |-> Cyc(WindTable, Slot(c)),
           weather       |-> Cyc(Categories, Slot(c))]

DateLess(a, b) == a.year < b.year \/ (a.year = b.year /\ a.doy < b.doy)

\* the rows of the dates in S, in date order (the dataset is stored by date)
RECURSIVE RowsOf(_)
RowsOf(S) ==
    IF S = {} THEN <<>>
    ELSE LET c == CHOOSE x \in S : \A y \in S \ {x} : DateLess(x, y)
         IN <<Row(c)>> \o RowsOf(S \ {c})

DataSets == {RowsOf(S) : S \in SUBSET Calendar}

----------------------------------------------------------------------------
(* pandas helpers *)

\* Series.dt.year
YearOf(r) == r.date.year

RECURSIVE SeqSum(_)
SeqSum(s) == IF s = <<>> THEN 0 ELSE Head(s) + SeqSum(Tail(s))

Column(d, c) == [i \in 1..Len(d) |-> d[i][c]]

NaN == [num |-> 0, den |-> 0]

IsNaN(q) == q.den = 0

\* Series.mean(): the sum over the count, NaN for no values
Mean(s) == IF Len(s) = 0 THEN NaN ELSE [num |-> SeqSum(s), den |-> Len(s)]

\* Series.mean() of a Series of means (skipna: NaN entries are left out)
RECURSIVE FracSum(_)
FracSum(ms) ==
    IF ms = <<>> THEN [num |-> 0, den |-> 1]
    ELSE LET r == FracSum(Tail(ms))
             h == Head(ms)
         IN [num |-> h.num * r.den + r.num * h.den, den |-> h.den * r.den]
\* the means added up and not divided by their number
SumOfMeans(ms) ==
    LET present == SelectSeq(ms, LAMBDA q : ~IsNaN(q))
    IN IF present = <<>> THEN NaN ELSE FracSum(present)

MeanOfMeans(ms) ==
    LET present == SelectSeq(ms, LAMBDA q : ~IsNaN(q))
        s == FracSum(present)
    IN IF present = <<>> THEN NaN
       ELSE [num |-> s.num, den |-> s.den * Len(present)]

\* a mask selection that collects the kept rows last to first
RECURSIVE BoolIndexReversed(_, _)
BoolIndexReversed(d, mask) ==
    IF d = <<>> THEN <<>>
    ELSE BoolIndexReversed(Tail(d), Tail(mask)) \o (IF Head(mask) THEN <<Head(d)>> ELSE <<>>)

\* DataFrame[mask]: the rows whose mask entry is true, in their order
RECURSIVE BoolIndex(_, _)
BoolIndex(d, mask) ==
    IF d = <<>> THEN <<>>
    ELSE (IF Head(mask) THEN <<Head(d)>> ELSE <<>>) \o BoolIndex(Tail(d), Tail(mask))

\* Series.isin(values)
IsIn(s, values) == [i \in 1..Len(s) |-> s[i] \in values]

\* full_df[full_df["date"].dt.year.isin(selected_years)]
FilterByYears(d, years) ==
    BoolIndex(d, IsIn([i \in 1..Len(d) |-> YearOf(d[i])], years))

\* sorted(...unique()): the distinct values in increasing order
RECURSIVE SortedSeq(_)
SortedSeq(S) ==
    IF S = {} THEN <<>>
    ELSE LET m == CHOOSE x \in S : \A y \in S : x <= y
         IN <<m>> \o SortedSeq(S \ {m})

Range(s) == {s[i] : i \in 1..Len(s)}

\* DataFrame.sort_values("date"): insertion of each row into the sorted rest
RECURSIVE SortByDate(_)
InsertByDate(r, s) ==
    LET k == Cardinality({i \in 1..Len(s) : DateLess(s[i].date, r.date)})
    IN SubSeq(s, 1, k) \o <<r>> \o SubSeq(s, k + 1, Len(s))
SortByDate(d) ==
    IF d = <<>> THEN <<>> ELSE InsertByDate(Head(d), SortByDate(Tail(d)))

\* Series.value_counts().reset_index(): one row per distinct label with its
\* count, largest count first, equal counts in order of first appearance
RECURSIVE FirstSeen(_, _)
FirstSeen(s, seen) ==
    IF s = <<>> THEN <<>>
    ELSE IF Head(s) \in seen THEN FirstSeen(Tail(s), seen)
         ELSE <<Head(s)>> \o FirstSeen(Tail(s), seen \cup {Head(s)})

CountOf(s, v) == Len(SelectSeq(s, LAMBDA x : x = v))

RECURSIVE SortByCountDesc(_)
InsertByCount(r, s) ==
    LET k == Cardinality({i \in 1..Len(s) : s[i].count > r.count})
    IN SubSeq(s, 1, k) \o <<r>> \o SubSeq(s, k + 1, Len(s))
SortByCountDesc(rows) ==
    IF rows = <<>> THEN <<>>
    ELSE InsertByCount(Head(rows), SortByCountDesc(Tail(rows)))

\* value_counts() cut to the five labels that have an icon
ValueCountsTopFive(s) ==
    LET labels == FirstSeen(s, {})
        rows == SortByCountDesc([i \in 1..Len(labels) |->
                          [weather |-> labels[i], count |-> CountOf(s, labels[i])]])
    IN SubSeq(rows, 1, IF Len(rows) < 5 THEN Len(rows) ELSE 5)

ValueCounts(s) ==
    LET labels == FirstSeen(s, {})
    IN SortByCountDesc([i \in 1..Len(labels) |->
                          [weather |-> labels[i], count |-> CountOf(s, labels[i])]])

\* Series.round(decimals): to the nearest multiple of 10^-decimals, a tie to
\* the even one.  The value is num/den >= 0; the result is in units of
\* 10^-decimals.
Decimals == 1

RECURSIVE Pow10(_)
Pow10(k) == IF k = 0 THEN 1 ELSE 10 * Pow10(k - 1)

\* truncation in place of rounding
RoundDown(num, den) == num \div den

RoundHalfEven(num, den) ==
    LET q == num \div den
        r == num % den
    IN IF 2 * r < den THEN q
       ELSE IF 2 * r > den THEN q + 1
       ELSE IF q % 2 = 0 THEN q ELSE q + 1

\* (count / total_days * 100).round(1), in tenths of a percent
Percentage(count, total) == RoundHalfEven(count * 100 * Pow10(Decimals), total)

\* x.rolling(window, min_periods).mean() over one group's values
Window == 7
MinPeriods == 1

\* a window one row too wide
RollingMeanWide(x, window, min_periods) ==
    [i \in 1..Len(x) |->
        LET lo == IF i - window < 1 THEN 1 ELSE i - window
            seen == i - lo + 1
        IN IF seen < min_periods THEN NaN
           ELSE [num |-> SeqSum(SubSeq(x, lo, i)), den |-> seen]]

RollingMean(x, window, min_periods) ==
    [i \in 1..Len(x) |->
        LET lo == IF i - window + 1 < 1 THEN 1 ELSE i - window + 1
            seen == i - lo + 1
        IN IF seen < min_periods THEN NaN
           ELSE [num |-> SeqSum(SubSeq(x, lo, i)), den |-> seen]]

\* the rolling mean taken over the whole column, without the groupby
UngroupedTransform(d, window, min_periods) ==
    RollingMean(Column(d, "wind"), window, min_periods)

\* groupby(year)["wind"].transform(f): f over each year's values in row
\* order, each result put back on the row it came from
GroupTransform(d, window, min_periods) ==
    [i \in 1..Len(d) |->
        LET key == YearOf(d[i])
            members == SelectSeq(d, LAMBDA r : YearOf(r) = key)
            rank == Cardinality({j \in 1..i : YearOf(d[j]) = key})
        IN RollingMean(Column(members, "wind"), window, min_periods)[rank]]

\* lines 211-214: the sorted copy with its wind_avg_7d column
WithWindAvg(d) ==
    LET s == SortByDate(d)
        w == GroupTransform(s, Window, MinPeriods)
    IN [i \in 1..Len(s) |-> [date |-> s[i].date, wind |-> s[i].wind,
                              wind_avg_7d |-> w[i]]]

----------------------------------------------------------------------------
(* The script *)

\* what a completed run computed
Results == [avg_temp |-> avg_temp, total_precip |-> total_precip,
            avg_wind |-> avg_wind, rainy_days |-> rainy_days,
            total_days |-> total_days, rainy_pct |-> rainy_pct,
            weather_counts |-> weather_counts, pct |-> pct,
            df_sorted |-> df_sorted]

\* the names of a fresh script namespace: nothing assigned yet
Fresh ==
    /\ bound = {}
    /\ full_df = <<>>
    /\ YEARS = <<>>
    /\ selected_years = {}
    /\ df = <<>>
    /\ avg_temp = NaN
    /\ total_precip = 0
    /\ avg_wind = NaN
    /\ rainy_days = 0
    /\ total_days = 0
    /\ rainy_pct = NaN
    /\ weather_counts = <<>>
    /\ pct = <<>>
    /\ df_sorted = <<>>

Init ==
    /\ source \in DataSets
    /\ session = [touched |-> FALSE, value |-> {}]
    /\ pc = "load"
    /\ hist = {}
    /\ Fresh

\* line 7: full_df = vega_datasets.data("seattle_weather")
Load ==
    /\ pc = "load"
    /\ full_df' = source
    /\ bound' = bound \cup {"full_df"}
    /\ pc' = "years"
    /\ UNCHANGED <<source, session, YEARS, selected_years, df, avg_temp,
                   total_precip, avg_wind, rainy_days, total_days, rainy_pct,
                   weather_counts, pct, df_sorted, hist>>

\* the offered years written out instead of read from the dataset
ComputeYearsFixed ==
    /\ pc = "years"
    /\ YEARS' = SortedSeq(CalendarYears)
    /\ bound' = bound \cup {"YEARS"}
    /\ pc' = "pills"
    /\ UNCHANGED <<source, session, full_df, selected_years, df, avg_temp,
                   total_precip, avg_wind, rainy_days, total_days, rainy_pct,
                   weather_counts, pct, df_sorted, hist>>

\* line 50: YEARS = sorted(full_df["date"].dt.year.unique())
ComputeYears ==
    /\ pc = "years"
    /\ YEARS' = SortedSeq({YearOf(full_df[i]) : i \in 1..Len(full_df)})
    /\ bound' = bound \cup {"YEARS"}
    /\ pc' = "pills"
    /\ UNCHANGED <<source, session, full_df, selected_years, df, avg_temp,
                   total_precip, avg_wind, rainy_days, total_days, rainy_pct,
                   weather_counts, pct, df_sorted, hist>>

\* lines 51-56: st.pills(..., YEARS, default=YEARS, selection_mode="multi")
\* returns the default until the user has touched the widget, then the
\* user's selection among the options
Pills ==
    /\ pc = "pills"
    /\ selected_years' = IF session.touched THEN session.value \cap Range(YEARS)
                         ELSE Range(YEARS)
    /\ bound' = bound \cup {"selected_years"}
    /\ pc' = "guard"
    /\ UNCHANGED <<source, session, full_df, YEARS, df, avg_temp,
                   total_precip, avg_wind, rainy_days, total_days, rainy_pct,
                   weather_counts, pct, df_sorted, hist>>

\* the warning shown without st.stop()
GuardFallsThrough ==
    /\ pc = "guard"
    /\ pc' = "filter"
    /\ UNCHANGED <<source, session, bound, full_df, YEARS, selected_years, df,
                   avg_temp, total_precip, avg_wind, rainy_days, total_days,
                   rainy_pct, weather_counts, pct, df_sorted, hist>>

\* lines 58-60: if not selected_years: st.warning(...); st.stop()
Guard ==
    /\ pc = "guard"
    /\ pc' = IF selected_years = {} THEN "stopped" ELSE "filter"
    /\ UNCHANGED <<source, session, bound, full_df, YEARS, selected_years, df,
                   avg_temp, total_precip, avg_wind, rainy_days, total_days,
                   rainy_pct, weather_counts, pct, df_sorted, hist>>

\* the filter assigned back to full_df
FilterInPlace ==
    /\ pc = "filter"
    /\ full_df' = FilterByYears(full_df, selected_years)
    /\ df' = full_df'
    /\ bound' = bound \cup {"df"}
    /\ pc' = "metrics"
    /\ UNCHANGED <<source, session, YEARS, selected_years, avg_temp,
                   total_precip, avg_wind, rainy_days, total_days, rainy_pct,
                   weather_counts, pct, df_sorted, hist>>

\* line 62: df = full_df[full_df["date"].dt.year.isin(selected_years)]
Filter ==
    /\ pc = "filter"
    /\ df' = FilterByYears(full_df, selected_years)
    /\ bound' = bound \cup {"df"}
    /\ pc' = "metrics"
    /\ UNCHANGED <<source, session, full_df, YEARS, selected_years, avg_temp,
                   total_precip, avg_wind, rainy_days, total_days, rainy_pct,
                   weather_counts, pct, df_sorted, hist>>

\* line 73: df[["temp_max", "temp_min"]].mean().mean()
AvgTemp(d) == MeanOfMeans(<<Mean(Column(d, "temp_max")), Mean(Column(d, "temp_min"))>>)

\* line 97: len(df[df["precipitation"] > 0])
RainyDays(d) == Len(BoolIndex(d, [i \in 1..Len(d) |-> d[i].precipitation > 0]))

\* lines 72-98: the four metric columns up to the two day counts
Metrics ==
    /\ pc = "metrics"
    /\ avg_temp' = AvgTemp(df)
    /\ total_precip' = SeqSum(Column(df, "precipitation"))
    /\ avg_wind' = Mean(Column(df, "wind"))
    /\ rainy_days' = RainyDays(df)
    /\ total_days' = Len(df)
    /\ bound' = bound \cup {"avg_temp", "total_precip", "avg_wind",
                             "rainy_days", "total_days"}
    /\ pc' = "rainy_pct"
    /\ UNCHANGED <<source, session, full_df, YEARS, selected_years, df,
                   rainy_pct, weather_counts, pct, df_sorted, hist>>

\* lines 99-104: rainy_days/total_days*100, a ZeroDivisionError that ends the
\* run when total_days is 0 (both operands are Python ints)
RainyPct ==
    /\ pc = "rainy_pct"
    /\ IF total_days = 0
       THEN /\ pc' = "crashed"
            /\ UNCHANGED <<rainy_pct, bound>>
       ELSE /\ rainy_pct' = [num |-> rainy_days * 100, den |-> total_days]
            /\ bound' = bound \cup {"rainy_pct"}
            /\ pc' = "counts"
    /\ UNCHANGED <<source, session, full_df, YEARS, selected_years, df,
                   avg_temp, total_precip, avg_wind, rainy_days, total_days,
                   weather_counts, pct, df_sorted, hist>>

\* lines 110-111: weather_counts = df["weather"].value_counts().reset_index()
WeatherCounts ==
    /\ pc = "counts"
    /\ weather_counts' = ValueCounts(Column(df, "weather"))
    /\ bound' = bound \cup {"weather_counts"}
    /\ pc' = "percent"
    /\ UNCHANGED <<source, session, full_df, YEARS, selected_years, df,
                   avg_temp, total_precip, avg_wind, rainy_days, total_days,
                   rainy_pct, pct, df_sorted, hist>>

\* line 137: weather_counts["percentage"] = (count / total_days * 100).round(1)
WithPercentage(wc, total) ==
    [i \in 1..Len(wc) |-> [weather |-> wc[i].weather, count |-> wc[i].count,
                            percentage |-> Percentage(wc[i].count, total)]]

\* lines 124-137: the per-row pct of the metric loop, then the percentage
\* column.  count is a numpy integer in both, so neither division raises; no
\* row exists when total_days is 0.
Percentages ==
    /\ pc = "percent"
    /\ pct' = [i \in 1..Len(weather_counts) |->
                 [num |-> weather_counts[i].count * 100, den |-> total_days]]
    /\ weather_counts' = WithPercentage(weather_counts, total_days)
    /\ bound' = bound \cup {"pct"}
    /\ pc' = "rolling"
    /\ UNCHANGED <<source, session, full_df, YEARS, selected_years, df,
                   avg_temp, total_precip, avg_wind, rainy_days, total_days,
                   rainy_pct, df_sorted, hist>>

\* lines 211-214, and the rest of the script, which only draws
Rolling ==
    /\ pc = "rolling"
    /\ df_sorted' = WithWindAvg(df)
    /\ bound' = bound \cup {"df_sorted"}
    /\ pc' = "done"
    /\ UNCHANGED <<source, session, full_df, YEARS, selected_years, df,
                   avg_temp, total_precip, avg_wind, rainy_days, total_days,
                   rainy_pct, weather_counts, pct, hist>>

\* a fresh namespace for the next execution of the script
Reset ==
    /\ bound' = {}
    /\ full_df' = <<>>
    /\ YEARS' = <<>>
    /\ selected_years' = {}
    /\ df' = <<>>
    /\ avg_temp' = NaN
    /\ total_precip' = 0
    /\ avg_wind' = NaN
    /\ rainy_days' = 0
    /\ total_days' = 0
    /\ rainy_pct' = NaN
    /\ weather_counts' = <<>>
    /\ pct' = <<>>
    /\ df_sorted' = <<>>

\* the run that ended is remembered under its selection the first time
Remember ==
    IF pc = "done" /\ \A h \in hist : h.selected # selected_years
    THEN hist \cup {[selected |-> selected_years, results |-> Results]}
    ELSE hist

\* the user changes the pills to a set of the offered years: the framework
\* keeps the selection and executes the whole script again
Rerun ==
    /\ pc \in {"done", "stopped", "crashed"}
    /\ \E s \in SUBSET Range(YEARS) :
          session' = [touched |-> TRUE, value |-> s]
    /\ hist' = Remember
    /\ Reset
    /\ pc' = "load"
    /\ UNCHANGED source

Next ==
    \/ Load
    \/ ComputeYears
    \/ Pills
    \/ Guard
    \/ Filter
    \/ Metrics
    \/ RainyPct
    \/ WeatherCounts
    \/ Percentages
    \/ Rolling
    \/ Rerun

Spec == Init /\ [][Next]_vars

\* The pipeline of lines 58-214 taken as a function of (dataset, years): the
\* year set is any set of calendar years, offered by the pills or not
AnySelection ==
    /\ pc = "pills"
    /\ \E s \in SUBSET CalendarYears : selected_years' = s
    /\ bound' = bound \cup {"selected_years"}
    /\ pc' = "guard"
    /\ UNCHANGED <<source, session, full_df, YEARS, df, avg_temp,
                   total_precip, avg_wind, rainy_days, total_days, rainy_pct,
                   weather_counts, pct, df_sorted, hist>>

\* the script executed again, the widget untouched
Again ==
    /\ pc \in {"done", "stopped", "crashed"}
    /\ Reset
    /\ pc' = "load"
    /\ UNCHANGED <<source, session, hist>>

NextAgg ==
    \/ Load
    \/ ComputeYears
    \/ AnySelection
    \/ Guard
    \/ Filter
    \/ Metrics
    \/ RainyPct
    \/ WeatherCounts
    \/ Percentages
    \/ Rolling
    \/ Again

SpecAgg == Init /\ [][NextAgg]_vars

----------------------------------------------------------------------------
(* Properties *)

Abs(n) == IF n < 0 THEN -n ELSE n

\* the position of a row in a table of rows with distinct dates
IndexIn(d, r) == CHOOSE i \in 1..Len(d) : d[i] = r

\* C1: filtering by a set of years keeps exactly the rows of the dataset
\* whose year is in the set, each once, in the order they have in the dataset
C1_FilterExact ==
    "df" \in bound =>
        /\ \A i \in 1..Len(full_df) :
              YearOf(full_df[i]) \in selected_years
                  => Cardinality({j \in 1..Len(df) : df[j] = full_df[i]}) = 1
        /\ \A j \in 1..Len(df) :
              /\ YearOf(df[j]) \in selected_years
              /\ \E i \in 1..Len(full_df) : full_df[i] = df[j]
        /\ \A j, k \in 1..Len(df) :
              j < k => IndexIn(full_df, df[j]) < IndexIn(full_df, df[k])

\* a filter that dropped some rows and kept at least two, of two years
C1_Witness ==
    /\ pc = "metrics"
    /\ Len(df) >= 2
    /\ Len(df) < Len(full_df)

AggregateNames == {"df", "avg_temp", "total_precip", "avg_wind", "rainy_days",
                   "total_days", "rainy_pct", "weather_counts", "pct", "df_sorted"}

\* C2: with an empty selection the run stops at the guard with no filter and
\* no aggregate computed; the filter and the aggregates are only reached
\* with a non-empty selection
C2_EmptySelectionStops ==
    /\ ("selected_years" \in bound /\ selected_years = {})
           => (pc \in {"guard", "stopped"} /\ bound \cap AggregateNames = {})
    /\ pc = "stopped" => selected_years = {}
    /\ pc \in {"filter", "metrics", "rainy_pct", "counts", "percent",
                "rolling", "done", "crashed"} => selected_years # {}

\* the user cleared every pill of a dataset that has rows
C2_Witness ==
    /\ pc = "stopped"
    /\ Len(full_df) > 0
    /\ session.touched

SumCounts(wc) == SeqSum([i \in 1..Len(wc) |-> wc[i].count])

\* C3: total_day_count is the number of rows of the dataset whose year is
\* selected, and the sum of the counts of the weather breakdown
C3_DayCountAgrees ==
    "weather_counts" \in bound =>
        /\ total_days = Cardinality({i \in 1..Len(full_df) :
                                        YearOf(full_df[i]) \in selected_years})
        /\ total_days = Len(df)
        /\ total_days = SumCounts(weather_counts)

\* a breakdown of six categories, one of them counted more than once
C3_Witness ==
    /\ pc = "percent"
    /\ Len(weather_counts) = Len(Categories)
    /\ total_days > Len(Categories)

SumPercentages(wc) == SeqSum([i \in 1..Len(wc) |-> wc[i].percentage])

\* C4 as stated: the rounded percentages sum to 100 within 0.1 (one tenth of
\* a percent is the unit here), whatever the number of categories
C4_SumWithinOneTenth ==
    "pct" \in bound => Abs(SumPercentages(weather_counts) - 1000) <= 1

\* C4 amended: the rounded percentages sum to 100 within 0.05 per category,
\* hence within 0.1 when there are at most three categories
C4_SumWithinHalfTenthPerCategory ==
    "pct" \in bound =>
        /\ 2 * Abs(SumPercentages(weather_counts) - 1000) <= Len(weather_counts)
        /\ Len(weather_counts) <= 3
               => Abs(SumPercentages(weather_counts) - 1000) <= 1

\* percentages of four or more categories that do not sum to 100.0
C4_Witness ==
    /\ pc = "rolling"
    /\ Len(weather_counts) >= 4
    /\ SumPercentages(weather_counts) # 1000

\* the rows of one year
OfYear(d, y) == SelectSeq(d, LAMBDA r : r.date.year = y)

\* the filtered sets one change away from d in the years other than y: a
\* row removed, a row's wind changed, a row of the reference table added
RemoveAt(d, i) == SubSeq(d, 1, i - 1) \o SubSeq(d, i + 1, Len(d))

OneChangeOutside(d, y) ==
    {RemoveAt(d, i) : i \in {j \in 1..Len(d) : YearOf(d[j]) # y}}
    \cup {[d EXCEPT ![i].wind = @ + 10] : i \in {j \in 1..Len(d) : YearOf(d[j]) # y}}
    \cup {SortByDate(<<Row(c)>> \o d) :
             c \in {x \in Calendar : x.year # y /\ \A j \in 1..Len(d) : d[j].date # x}}

\* C5: the rolling wind average of the rows of a year is the same for any
\* filtered set that differs from this one only in the rows of another year
C5_NoBlendAcrossYears ==
    "df_sorted" \in bound =>
        \A y \in CalendarYears :
            \A other \in OneChangeOutside(df, y) :
                OfYear(WithWindAvg(other), y) = OfYear(df_sorted, y)

\* a row of one year directly after two or more rows of the year before, all
\* within one window length
C5_Witness ==
    /\ pc = "done"
    /\ \E i \in 3..Len(df_sorted) :
          /\ i <= Window
          /\ df_sorted[i].date.year # df_sorted[i - 1].date.year
          /\ df_sorted[i - 1].date.year = df_sorted[i - 2].date.year

RECURSIVE WindSum(_)
WindSum(S) ==
    IF S = {} THEN 0
    ELSE LET r == CHOOSE x \in S : TRUE IN r.wind + WindSum(S \ {r})

\* the rows of the filtered set in r's year dated no later than r
UpTo(r) == {q \in Range(df) : YearOf(q) = YearOf(r) /\ ~DateLess(r.date, q.date)}

\* r and the up to six rows of its year immediately before it
TrailingWindow(r) ==
    {q \in UpTo(r) : Cardinality({p \in UpTo(r) : DateLess(q.date, p.date)}) <= 6}

\* C6: one rolling value per filtered row, the mean of wind over the row and
\* the up to six rows of its calendar year immediately before it
C6_TrailingMeanPerYear ==
    "df_sorted" \in bound =>
        /\ Len(df_sorted) = Len(df)
        /\ \A r \in Range(df) :
              /\ Cardinality({i \in 1..Len(df_sorted) : df_sorted[i].date = r.date}) = 1
              /\ \A i \in 1..Len(df_sorted) :
                    df_sorted[i].date = r.date =>
                        LET v == df_sorted[i].wind_avg_7d
                        IN /\ v.den # 0
                           /\ v.num * Cardinality(TrailingWindow(r))
                                  = WindSum(TrailingWindow(r)) * v.den

\* a row with more than six rows of its year before it: the window is full
\* and leaves the oldest row out
C6_Witness ==
    /\ pc = "done"
    /\ \E r \in Range(df) : Cardinality(UpTo(r)) > 7

\* C7: avg_temp is the mean of all temp_max and temp_min values pooled
C7_PooledMean ==
    ("avg_temp" \in bound /\ Len(df) > 0) =>
        /\ avg_temp.den # 0
        /\ avg_temp.num * (2 * Len(df))
               = (SeqSum(Column(df, "temp_max")) + SeqSum(Column(df, "temp_min")))
                    * avg_temp.den

\* an average over several rows of both years
C7_Witness ==
    /\ pc = "rainy_pct"
    /\ Len(df) >= 3
    /\ \E i, j \in 1..Len(df) : df[i].temp_max # df[j].temp_max

\* C8: a selection that excludes every year of the dataset gives an empty
\* filtered set and the run goes on to a defined result (zero days, empty
\* breakdown, undefined means) instead of aborting
C8_EmptyResultDefined ==
    ("df" \in bound /\ selected_years # {} /\ df = <<>>) =>
        /\ pc # "crashed"
        /\ pc = "done" => /\ total_days = 0
                          /\ weather_counts = <<>>
                          /\ IsNaN(avg_temp)
                          /\ IsNaN(avg_wind)

\* C9: a run computes for its selection what the first run with that
\* selection computed, whatever was selected in between, and the loaded
\* dataset is the bundled table in every run
C9_HistoryIndependent ==
    /\ pc = "done" => \A h \in hist :
                          h.selected = selected_years => h.results = Results
    /\ "full_df" \in bound => full_df = source

\* a selection computed again after runs with other selections
C9_Witness ==
    /\ pc = "done"
    /\ \E h \in hist : h.selected = selected_years
    /\ Cardinality(hist) >= 3
    /\ Len(df) < Len(full_df)

\* C10: in the application no run divides by zero: past the guard the
\* filtered set has a row, and total_days is positive where it divides
C10_NoZeroDivision ==
    /\ pc # "crashed"
    /\ "df" \in bound => Len(df) >= 1
    /\ pc \in {"rainy_pct", "counts", "percent", "rolling", "done"} => total_days > 0

\* a run that divides by a single day
C10_Witness ==
    /\ pc = "percent"
    /\ total_days = 1
    /\ Len(full_df) > 1

====
